---- MODULE Spec2Model ----
(***************************************************************************)
(* A model of pinger.py: the options generator (generate_ip_options), the  *)
(* response builder (build_response_packet) and the session driver (main)  *)
(* running next to the external ping process.                              *)
(*                                                                         *)
(* Packets are scapy layer stacks: a sequence of layer records.  Bytes are *)
(* integers 0..255, byte strings are sequences of them.  An optional value *)
(* (Python None or a value) is the empty set or a singleton.               *)
(***************************************************************************)
EXTENDS Integers, Sequences, FiniteSets, TLC

\* ------------------------------------------------------------------ bounds

\* The largest --count the model runs.
MaxCount == 2

\* The longest echo payload the model feeds to the builder.
MaxLoad == 10

\* ------------------------------------------------------ the installation

\* The installed scapy reads a conditional field that is absent from the
\* packet as None (2.4.4 and later), not as its stored value (earlier).
VARIABLE absent_is_none

\* -------------------------------------------------------- optional values

None == {}

Some(v) == {v}

Val(x) == CHOOSE v \in x : TRUE

\* Python truthiness of an optional integer: None and 0 are both false.
Truthy(x) == x # None /\ Val(x) # 0

\* The outcome of an expression that raises the exception exc.
Raises(exc) == [raises |-> Some(exc)]

\* ------------------------------------------------------------ byte strings

RECURSIVE Repeat(_, _)
Repeat(s, n) == IF n <= 0 THEN <<>> ELSE s \o Repeat(s, n - 1)

RECURSIVE Flatten(_)
Flatten(ss) == IF ss = <<>> THEN <<>> ELSE Head(ss) \o Flatten(Tail(ss))

\* Python s[k:] : drop the first k items (everything when s is shorter).
DropFirst(s, k) == IF k >= Len(s) THEN <<>> ELSE SubSeq(s, k + 1, Len(s))

\* Python s[:-k] : drop the last k items (everything when s is shorter).
DropLast(s, k) == IF k >= Len(s) THEN <<>> ELSE SubSeq(s, 1, Len(s) - k)

\* scapy bytes_hex: two hexadecimal digits per byte, high digit first.
bytes_hex(b) ==
    [k \in 1..(2 * Len(b)) |->
        IF k % 2 = 1 THEN b[(k + 1) \div 2] \div 16 ELSE b[k \div 2] % 16]

\* scapy hex_bytes: one byte per pair of hexadecimal digits; binascii raises
\* on an odd number of digits.
hex_bytes(h) ==
    IF Len(h) % 2 = 1 THEN Raises("binascii.Error")
    ELSE [k \in 1..(Len(h) \div 2) |-> 16 * h[2 * k - 1] + h[2 * k]]

\* ------------------------------------------------------------------ layers

\* sc.IP(): every field at scapy's default.
sc_IP ==
    [layer |-> "IP", ihl |-> None, len |-> None, id |-> 1, flags |-> 0,
     proto |-> None, chksum |-> None, src |-> "default", dst |-> "default",
     options |-> <<>>]

\* sc.ICMP(): every field at scapy's default (an echo request, id 0, seq 0).
\* The record holds the values stored for id and seq; whether the header
\* has the two fields depends on its type (ICMP_id_seq_present).
sc_ICMP == [layer |-> "ICMP", type |-> 8, code |-> 0, id |-> 0, seq |-> 0]

\* scapy's ICMP has the fields id and seq for these types alone.
ICMP_id_seq_present == {0, 8, 13, 14, 15, 16, 17, 18}

\* Reading icmp.id or icmp.seq: the stored value, or None where the field is
\* absent and the installed scapy reads absent fields so.
ICMP_getattr(l, f) ==
    IF absent_is_none /\ l.type \notin ICMP_id_seq_present
    THEN None
    ELSE Some(l[f])

sc_TCP(sport, dport) == [layer |-> "TCP", sport |-> sport, dport |-> dport]

sc_UDP(sport, dport) == [layer |-> "UDP", sport |-> sport, dport |-> dport]

\* A payload given as bytes or str becomes a Raw layer.
Raw(b) == [layer |-> "Raw", load |-> b]

\* The payload of a layer that has none.
NoPayload == [layer |-> "NoPayload"]

\* bytes(x) of a payload: a Raw layer's load, nothing for NoPayload.
bytes(x) == IF x.layer = "Raw" THEN x.load ELSE <<>>

\* p / q : stacking NoPayload adds no layer.
Div(p, q) == IF q.layer = "NoPayload" THEN p ELSE Append(p, q)

\* ------------------------------------------------------- options generator

routers ==
    << <<192, 0, 2, 10>>, <<192, 0, 2, 20>>, <<192, 0, 2, 30>>,
       <<192, 0, 2, 40>>, <<192, 0, 2, 50>>, <<192, 0, 2, 60>>,
       <<192, 0, 2, 70>>, <<192, 0, 2, 80>>, <<192, 0, 2, 90>> >>

\* The routers list of nine 0 entries; scapy encodes address 0 as 0.0.0.0.
routers_zero == [k \in 1..9 |-> <<0, 0, 0, 0>>]

\* A route option's bytes: type, length, pointer, router addresses.  A length
\* left unset is computed by scapy as 3 + 4 per router; a pointer left unset
\* is 4.
RouteOption(code, length, pointer, rs) ==
    << code,
       IF length = None THEN 3 + 4 * Len(rs) ELSE Val(length),
       IF pointer = None THEN 4 ELSE Val(pointer) >> \o Flatten(rs)

\* IPOption_RR with the computed length missing the three header bytes.
IPOption_RR_lenbug(length, pointer, rs) ==
    RouteOption(7, IF length = None THEN Some(4 * Len(rs)) ELSE length,
                pointer, rs)

IPOption_RR(length, pointer, rs) == RouteOption(7, length, pointer, rs)

IPOption_LSRR(length, pointer, rs) == RouteOption(131, length, pointer, rs)

IPOption_SSRR(length, pointer, rs) == RouteOption(137, length, pointer, rs)

routing_options ==
    {"RR", "RR-same", "RR-trunc", "LSRR", "LSRR-trunc", "SSRR", "SSRR-trunc"}

\* The profiles --opts accepts.
OptsChoices == {"EOL", "NOP", "NOP-40", "unk", "unk-40"} \cup routing_options

\* The bytes of the IP options of a profile (None: no --opts given).
generate_ip_options(opts) ==
    IF opts = None THEN <<>>
    ELSE CASE Val(opts) = "EOL" -> <<0>>
           [] Val(opts) = "NOP" -> <<1>>
           [] Val(opts) = "NOP-40" -> Repeat(<<1>>, 40)
           [] Val(opts) = "RR" -> IPOption_RR(None, Some(40), routers)
           [] Val(opts) = "RR-same" -> IPOption_RR(None, Some(3), routers_zero)
           [] Val(opts) = "RR-trunc" -> IPOption_RR(Some(7), None, routers_zero)
           [] Val(opts) = "LSRR" -> IPOption_LSRR(None, None, routers)
           [] Val(opts) = "LSRR-trunc" ->
                 IPOption_LSRR(Some(3), None, routers_zero)
           [] Val(opts) = "SSRR" -> IPOption_SSRR(None, None, routers)
           [] Val(opts) = "SSRR-trunc" ->
                 IPOption_SSRR(Some(3), None, routers_zero)
           [] Val(opts) = "unk" -> <<159>>
           [] Val(opts) = "unk-40" -> Repeat(<<159>>, 40)
           [] OTHER -> <<>>

\* Whether the profile makes the generator run sysctl
\* net.inet.ip.process_options=0.
DisablesOptionProcessing(opts) ==
    opts # None /\ Val(opts) \in routing_options \cup {"unk", "unk-40"}

\* -------------------------------------------------------- response builder

icmp_id_seq_types == {0, 8, 13, 14, 15, 16, 17, 18, 37, 38}

\* The inner header made to look as if the original packet had the reply's
\* flags and options.
NormalizeInner(oip, ip) ==
    [oip EXCEPT !.ihl = None, !.len = None, !.id = 1, !.flags = ip.flags,
                !.chksum = None, !.options = ip.options]

\* if oip_ihl: oip.ihl = oip_ihl
OverrideIhl(oip, oip_ihl) ==
    IF Truthy(oip_ihl) THEN [oip EXCEPT !.ihl = oip_ihl] ELSE oip

\* special == "every-other" and icmp.seq % 2 : whether the test is true
\* (skip), or raises TypeError on None % 2; seq is read only when special is
\* every-other.
SkipReply(special, icmp) ==
    IF special # Some("every-other") THEN [raises |-> None, skip |-> FALSE]
    ELSE IF ICMP_getattr(icmp, "seq") = None
    THEN [raises |-> Some("TypeError"), skip |-> FALSE]
    ELSE [raises |-> None, skip |-> Val(ICMP_getattr(icmp, "seq")) % 2 # 0]

\* WarpLoad cutting 8 hexadecimal digits (4 bytes) instead of 16.
WarpLoad_short(load) ==
    <<127>> \o Repeat(<<255>>, 7) \o hex_bytes(DropFirst(bytes_hex(load), 8))

\* The payload with its first 8 bytes (16 hexadecimal digits) replaced by
\* 0x7f ff ff ff ff ff ff ff.
WarpLoad(load) ==
    <<127>> \o Repeat(<<255>>, 7) \o hex_bytes(DropFirst(bytes_hex(load), 16))

\* WrongLoad appending the zero without cutting the last byte.
WrongLoad_keep(load) == hex_bytes(bytes_hex(load)) \o <<0>>

\* The payload with its last byte (2 hexadecimal digits) replaced by 0.
WrongLoad(load) == hex_bytes(DropLast(bytes_hex(load), 2)) \o <<0>>

\* oicmp.id += 1 : a Python integer, which does not wrap.
ForeignId(oicmp) == [oicmp EXCEPT !.id = @ + 1]

\* Layout without del ip.options.
Layout_keep_options(ip, icmp, oip, oicmp, load) ==
    IF icmp.type \in icmp_id_seq_types
    THEN [pkt |-> Div(<<ip, icmp>>, load), ip |-> ip]
    ELSE [pkt |-> Div(<<ip, icmp, oip, oicmp>>, load), ip |-> ip]

\* The last step of the builder: the layout by the outer ICMP type.  del
\* ip.options acts on the caller's template, before ip / icmp copies it.
Layout(ip, icmp, oip, oicmp, load) ==
    IF icmp.type \in icmp_id_seq_types
    THEN [pkt |-> Div(<<ip, icmp>>, load), ip |-> ip]
    ELSE LET stripped == [ip EXCEPT !.options = <<>>]
         IN  [pkt |-> Div(<<stripped, icmp, oip, oicmp>>, load),
              ip |-> stripped]

\* build_response_packet: the exception raised if any (raises), the packet
\* returned (pkt, none when it raises), the caller's template as the call
\* leaves it (ip) and the caller's echo as the call leaves it (echo: its IP
\* layer alone, payload removed and fields rewritten).
build_response_packet(echo, ip, icmp, oip_ihl, special) ==
    LET load0  == IF Len(echo) >= 3 THEN echo[3] ELSE NoPayload
        oicmp0 == [echo[2] EXCEPT !.type = 8]
        oip0   == OverrideIhl(NormalizeInner(echo[1], ip), oip_ihl)
        load1  == IF special = Some("no-payload") THEN Raw(<<>>) ELSE load0
        load2  == IF special = Some("warp")
                  THEN Raw(WarpLoad(bytes(load1))) ELSE load1
        load3  == IF special = Some("wrong")
                  THEN Raw(WrongLoad(bytes(load2))) ELSE load2
        oicmp1 == IF special = Some("not-mine")
                  THEN ForeignId(oicmp0) ELSE oicmp0
        tcp    == [oip0 EXCEPT !.proto = Some(6)]
        udp    == [oip0 EXCEPT !.proto = Some(17)]
        last   == Layout(ip, icmp, oip0, oicmp1, load3)
        skip   == SkipReply(special, icmp)
    IN  IF skip.raises # None
        THEN [raises |-> skip.raises, pkt |-> <<>>, ip |-> ip,
              echo |-> <<oip0>>]
        ELSE IF skip.skip
        THEN [raises |-> None, pkt |-> <<sc_IP, sc_ICMP>>, ip |-> ip,
              echo |-> <<oip0>>]
        ELSE IF special = Some("tcp")
        THEN [raises |-> None, pkt |-> <<ip, icmp, tcp, sc_TCP(1234, 5678)>>,
              ip |-> ip, echo |-> <<tcp>>]
        ELSE IF special = Some("udp")
        THEN [raises |-> None, pkt |-> <<ip, icmp, udp, sc_UDP(1234, 5678)>>,
              ip |-> ip, echo |-> <<udp>>]
        ELSE [raises |-> None, pkt |-> last.pkt, ip |-> last.ip,
              echo |-> <<oip0>>]

\* ------------------------------------------------------------ serializer

\* The header length scapy writes for an IP layer: the ihl field when it is
\* set, else the real size in 32-bit words (options padded to a multiple of
\* four bytes); the 4-bit field keeps the low four bits.
DeclaredIhl(l) ==
    (IF l.ihl = None THEN 5 + (Len(l.options) + 3) \div 4 ELSE Val(l.ihl))
        % 16

\* The protocol number scapy writes for an IP layer: the proto field when it
\* is set, else the one bound to the layer stacked on it.
DeclaredProto(l, upper) ==
    IF l.proto # None THEN Val(l.proto)
    ELSE CASE upper = "ICMP" -> 1
           [] upper = "TCP" -> 6
           [] upper = "UDP" -> 17
           [] upper = "IP" -> 4
           [] OTHER -> 0

\* Whether every field value of the layer fits its field: scapy raises on
\* packing a value that does not fit a byte or a 16-bit field (a bit field
\* such as ihl is masked instead).
Packable(l) ==
    CASE l.layer = "IP" -> l.id \in 0..65535
      [] l.layer = "ICMP" ->
            /\ l.type \in 0..255
            /\ l.code \in 0..255
            /\ (l.type \in ICMP_id_seq_present =>
                    l.id \in 0..65535 /\ l.seq \in 0..65535)
      [] OTHER -> TRUE

\* raw(pkt) succeeds.
CanSerialize(p) == \A k \in 1..Len(p) : Packable(p[k])

\* raw(pkt): the frame written to the interface, with the fields scapy
\* computes on serialization (ihl, proto) filled in.  Total length and
\* checksums are computed too and are not represented.
raw(p) ==
    [k \in 1..Len(p) |->
        IF p[k].layer = "IP"
        THEN [p[k] EXCEPT
                !.ihl = Some(DeclaredIhl(p[k])),
                !.proto = Some(DeclaredProto(p[k],
                             IF k < Len(p) THEN p[k + 1].layer ELSE ""))]
        ELSE p[k]]

\* ----------------------------------------------------------- the program

VARIABLES
    args,             \* the parsed command line
    ping,             \* the /sbin/ping process
    process_options,  \* the net.inet.ip.process_options sysctl
    tun,              \* frames the kernel queued on the tun interface
    sent,             \* frames the driver wrote to the tun interface
    pc,               \* the driver's position in main()
    n,                \* loop iterations started by range(args.count)
    ip_opts,          \* main's ip_opts
    ip,               \* main's ip: the reply template
    echo,             \* main's echo
    icmp,             \* main's icmp
    pkt,              \* main's pkt
    status,           \* the driver's exit status
    ref_ip,           \* the template of the same run without --special
    ref_pkt           \* the reply of the same run without --special

vars ==
    <<args, absent_is_none, ping, process_options, tun, sent, pc, n, ip_opts,
      ip, echo, icmp, pkt, status, ref_ip, ref_pkt>>

\* The values --special accepts.
SpecialChoices ==
    {"no-payload", "not-mine", "tcp", "udp", "wrong", "warp", "every-other"}

Optional(S) == {None} \cup {Some(v) : v \in S}

\* Outer ICMP types the model runs: echo reply, destination unreachable,
\* time exceeded, timestamp request, domain name reply.
TypeSamples == {0, 3, 11, 13, 38}

\* Request identifiers (ping's pid, 16 bits) the model runs.
IdSamples == {0, 1, 255, 256, 32767, 32768, 65534, 65535}

ByteSamples == {0, 1, 255}

\* Echo payloads: every length up to MaxLoad, one byte value throughout but
\* for one position.
Payloads ==
    {[k \in 1..len |-> IF k = pos THEN a ELSE b] :
        len \in 0..MaxLoad, pos \in 0..MaxLoad, a \in ByteSamples,
        b \in ByteSamples}

\* A run: a command line, and the ping process it meets (its identifier, its
\* payload, the status it will exit with).
Runs(Ts, Os, Ss, Hs, Ds, Cs, Is, Ls, Rs) ==
    {[args |-> [icmp_type |-> t, icmp_code |-> 0, ihl |-> None, flags |-> 0,
                opts |-> o, oip_ihl |-> h, special |-> s, count |-> c,
                dup |-> d, src |-> "192.0.2.1", dst |-> "192.0.2.2"],
      id |-> id, load |-> l, returncode |-> r] :
        t \in Ts, o \in Os, s \in Ss, h \in Hs, d \in Ds, c \in Cs,
        id \in Is, l \in Ls, r \in Rs}

\* Whole sessions: every --special, with and without --dup, every count.
DriverRuns ==
    Runs({0, 3}, {None, Some("RR")}, Optional(SpecialChoices), {None},
         BOOLEAN, 0..MaxCount, {1, 65535}, {<<1, 1>>}, {0, 2})

\* Every options profile with every --special and ICMP type.
LayoutRuns ==
    Runs(TypeSamples, Optional(OptsChoices), Optional(SpecialChoices),
         {None}, {FALSE}, {MaxCount}, {1}, {<<1, 1>>}, {0})

\* Every inner header length override.
IhlRuns ==
    Runs({0, 3}, {None, Some("NOP"), Some("RR-trunc")},
         Optional(SpecialChoices), Optional(0..15), {FALSE}, {1}, {1},
         {<<1, 1>>}, {0})

\* Every sampled request identifier.
IdRuns ==
    Runs({0, 3}, {None}, {None, Some("not-mine")}, {None}, {FALSE}, {1},
         IdSamples, {<<1, 1>>}, {0})

\* Every sampled payload with the --special values that rewrite it.
PayloadRuns ==
    Runs({0, 3}, {None},
         {None, Some("no-payload"), Some("warp"), Some("wrong")},
         {None}, {FALSE}, {1}, {1}, Payloads, {0})

\* --ihl and --flags given.
TemplateRuns ==
    {[r EXCEPT !.args.ihl = h, !.args.flags = f] :
        r \in Runs({0, 3}, {None, Some("NOP")}, {None}, {None}, {FALSE},
                   {MaxCount}, {1}, {<<1, 1>>}, {0}),
        h \in {Some(5), Some(15)}, f \in {1, 2}}

AllRuns ==
    DriverRuns \cup LayoutRuns \cup IhlRuns \cup IdRuns \cup PayloadRuns
        \cup TemplateRuns

\* The echo request ping sends with sequence number seq, as the driver reads
\* it from the interface.
EchoFrame(seq) ==
    Div(<<[layer |-> "IP", ihl |-> Some(5),
           len |-> Some(28 + Len(ping.load)), id |-> seq, flags |-> 0,
           proto |-> Some(1), chksum |-> Some(0), src |-> args.src,
           dst |-> args.dst, options |-> <<>>],
          [layer |-> "ICMP", type |-> 8, code |-> 0, id |-> ping.id,
           seq |-> seq]>>,
        IF ping.load = <<>> THEN NoPayload ELSE Raw(ping.load))

Init ==
    \E r \in AllRuns :
        /\ args = r.args
        /\ absent_is_none \in BOOLEAN
        /\ ping = [id |-> r.id, load |-> r.load, returncode |-> r.returncode,
                   state |-> "unstarted", emitted |-> 0]
        /\ process_options = 1
        /\ tun = <<>>
        /\ sent = <<>>
        /\ pc = "start"
        /\ n = 0
        /\ ip_opts = <<>>
        /\ ip = sc_IP
        /\ echo = <<>>
        /\ icmp = sc_ICMP
        /\ pkt = <<>>
        /\ status = None
        /\ ref_ip = sc_IP
        /\ ref_pkt = <<>>

\* The reply template main() builds from the command line.
Template(a, opts) ==
    [sc_IP EXCEPT !.ihl = a.ihl, !.flags = a.flags, !.src = a.dst,
                  !.dst = a.src, !.options = opts]

\* main() up to the launch of ping: the options, the template, Popen.
Start ==
    /\ pc = "start"
    /\ ip_opts' = generate_ip_options(args.opts)
    /\ process_options' =
          IF DisablesOptionProcessing(args.opts) THEN 0 ELSE process_options
    /\ ip' = Template(args, generate_ip_options(args.opts))
    /\ ref_ip' = Template(args, generate_ip_options(args.opts))
    /\ ping' = [ping EXCEPT !.state = "running"]
    /\ pc' = "loop"
    /\ UNCHANGED <<absent_is_none, args, tun, sent, n, echo, icmp, pkt,
                   status, ref_pkt>>

\* for dummy in range(args.count)
Loop ==
    /\ pc = "loop"
    /\ IF n < args.count
       THEN n' = n + 1 /\ pc' = "recv"
       ELSE n' = n /\ pc' = "communicate"
    /\ UNCHANGED <<absent_is_none, args, ping, process_options, tun, sent,
                   ip_opts, ip, echo, icmp, pkt, status, ref_ip, ref_pkt>>

\* echo = tun.recv(), which blocks until a frame is queued, and the ICMP
\* header of the reply with the request's identifier and sequence number.
Recv ==
    /\ pc = "recv"
    /\ tun # <<>>
    /\ echo' = Head(tun)
    /\ tun' = Tail(tun)
    /\ icmp' = [sc_ICMP EXCEPT !.type = args.icmp_type,
                               !.code = args.icmp_code,
                               !.id = Head(tun)[2].id,
                               !.seq = Head(tun)[2].seq]
    /\ pc' = "build"
    /\ UNCHANGED <<absent_is_none, args, ping, process_options, sent, n,
                   ip_opts, ip, pkt, status, ref_ip, ref_pkt>>

\* pkt = build_response_packet(echo, ip, icmp, args.oip_ihl, args.special)
Build ==
    /\ pc = "build"
    /\ LET r == build_response_packet(echo, ip, icmp, args.oip_ihl,
                                      args.special)
           ref == build_response_packet(echo, ref_ip, icmp, args.oip_ihl, None)
       IN  /\ r.raises = None
           /\ pkt' = r.pkt
           /\ ip' = r.ip
           /\ echo' = r.echo
           /\ ref_pkt' = ref.pkt
           /\ ref_ip' = ref.ip
    /\ pc' = "send"
    /\ UNCHANGED <<absent_is_none, args, ping, process_options, tun, sent, n,
                   ip_opts, icmp, status>>

\* build_response_packet raises, having rewritten echo: the exception leaves
\* the loop and the with block, pkt is not assigned.
BuildRaises ==
    /\ pc = "build"
    /\ LET r == build_response_packet(echo, ip, icmp, args.oip_ihl,
                                      args.special)
       IN  /\ r.raises # None
           /\ echo' = r.echo
    /\ pc' = "unwind"
    /\ UNCHANGED <<absent_is_none, args, ping, process_options, tun, sent, n,
                   ip_opts, ip, icmp, pkt, status, ref_ip, ref_pkt>>

\* tun.send(pkt)
Send ==
    /\ pc = "send"
    /\ CanSerialize(pkt)
    /\ sent' = Append(sent, raw(pkt))
    /\ pc' = "dup"
    /\ UNCHANGED <<absent_is_none, args, ping, process_options, tun, n,
                   ip_opts, ip, echo, icmp, pkt, status, ref_ip, ref_pkt>>

\* tun.send(pkt) raises: a field value does not fit its field.  The
\* exception leaves the loop and the with block.
SendRaises ==
    /\ pc = "send"
    /\ ~CanSerialize(pkt)
    /\ pc' = "unwind"
    /\ UNCHANGED <<absent_is_none, args, ping, process_options, tun, sent, n,
                   ip_opts, ip, echo, icmp, pkt, status, ref_ip, ref_pkt>>

\* if args.dup is True: tun.send(pkt)
SendDup ==
    /\ pc = "dup"
    /\ sent' = IF args.dup THEN Append(sent, raw(pkt)) ELSE sent
    /\ pc' = "loop"
    /\ UNCHANGED <<absent_is_none, args, ping, process_options, tun, n,
                   ip_opts, ip, echo, icmp, pkt, status, ref_ip, ref_pkt>>

\* ping.communicate(): returns once ping has exited.
Communicate ==
    /\ pc = "communicate"
    /\ ping.state = "exited"
    /\ pc' = "exit"
    /\ UNCHANGED <<absent_is_none, args, ping, process_options, tun, sent, n,
                   ip_opts, ip, echo, icmp, pkt, status, ref_ip, ref_pkt>>

\* sys.exit(ping.returncode)
Exit ==
    /\ pc = "exit"
    /\ status' = Some(ping.returncode)
    /\ pc' = "done"
    /\ UNCHANGED <<absent_is_none, args, ping, process_options, tun, sent, n,
                   ip_opts, ip, echo, icmp, pkt, ref_ip, ref_pkt>>

\* An exception leaving the with block: Popen.__exit__ waits for ping, then
\* the interpreter ends on the uncaught exception with status 1.
Unwind ==
    /\ pc = "unwind"
    /\ ping.state = "exited"
    /\ status' = Some(1)
    /\ pc' = "done"
    /\ UNCHANGED <<absent_is_none, args, ping, process_options, tun, sent, n,
                   ip_opts, ip, echo, icmp, pkt, ref_ip, ref_pkt>>

\* ping -c count sends its next echo request.
PingEmit ==
    /\ ping.state = "running"
    /\ ping.emitted < args.count
    /\ tun' = Append(tun, EchoFrame(ping.emitted))
    /\ ping' = [ping EXCEPT !.emitted = @ + 1]
    /\ UNCHANGED <<absent_is_none, args, process_options, sent, pc, n,
                   ip_opts, ip, echo, icmp, pkt, status, ref_ip, ref_pkt>>

\* ping exits once it has sent count requests.
PingExit ==
    /\ ping.state = "running"
    /\ ping.emitted = args.count
    /\ ping' = [ping EXCEPT !.state = "exited"]
    /\ UNCHANGED <<absent_is_none, args, process_options, tun, sent, pc, n,
                   ip_opts, ip, echo, icmp, pkt, status, ref_ip, ref_pkt>>

Next ==
    \/ Start
    \/ Loop
    \/ Recv
    \/ Build
    \/ BuildRaises
    \/ Send
    \/ SendRaises
    \/ SendDup
    \/ Communicate
    \/ Exit
    \/ Unwind
    \/ PingEmit
    \/ PingExit

Spec == Init /\ [][Next]_vars

\* Neither the driver nor ping stops while it can take a step.
FairSpec == Spec /\ WF_vars(Next)

\* ---------------------------------------------------------------- claims

\* The informational ICMP types.
Informational == {0, 8, 13, 14, 15, 16, 17, 18, 37, 38}

\* The packet embeds an inner IP header after the outer IP and ICMP headers.
EmbedsInnerIP(p) == Len(p) >= 3 /\ p[3].layer = "IP"

\* The packet holds no IP or ICMP header after the outer two.
NoEmbeddedHeader(p) ==
    \A k \in 3..Len(p) : p[k].layer \notin {"IP", "ICMP"}

\* The payload the packet carries after its headers.
PayloadOf(p) == IF p[Len(p)].layer = "Raw" THEN p[Len(p)].load ELSE <<>>

\* The build just returned pkt for the request with sequence number n - 1.
Built == pc = "send"

\* The layout by the outer ICMP type.
TypeDrivenLayout ==
    IF icmp.type \in Informational
    THEN NoEmbeddedHeader(pkt)
    ELSE EmbedsInnerIP(pkt) /\ pkt[1].options = <<>>

\* C1 as stated: for every outer ICMP type, options profile and --special,
\* the built packet has no embedded header when the type is informational,
\* and embeds the inner IP header under an outer header without options when
\* it is not.
C1_LayoutForEverySpecial == Built => TypeDrivenLayout

\* C1 as amended, of every packet the builder returns: the layout follows
\* the outer ICMP type when --special is absent, no-payload, warp, wrong
\* or not-mine, or every-other on an even sequence number.  With tcp or
\* udp the packet embeds the inner IP header and the transport header
\* whatever the type, and the outer header keeps the template's options.
\* With every-other on an odd sequence number the packet is the two bare
\* headers whatever the type.
C1_LayoutByTypeUnlessEarlyReturn ==
    Built =>
        IF args.special = Some("every-other") /\ icmp.seq % 2 = 1
        THEN Len(pkt) = 2
        ELSE IF args.special \in {Some("tcp"), Some("udp")}
        THEN /\ EmbedsInnerIP(pkt)
             /\ Len(pkt) = 4
             /\ pkt[4].layer = (IF args.special = Some("tcp") THEN "TCP"
                                ELSE "UDP")
             /\ pkt[1].options = ip_opts
        ELSE TypeDrivenLayout

\* C1's case: an error-style reply built from a template that had options.
C1_Witness ==
    /\ Built
    /\ args.special = Some("warp")
    /\ icmp.type = 11
    /\ ip_opts # <<>>
    /\ EmbedsInnerIP(pkt)
    /\ pkt[3].options = ip_opts
    /\ pkt[1].options = <<>>

\* C2 as stated: once built, the reply template still carries the options
\* generate_ip_options produced at start-up, after any number of builds.
C2_TemplateKeepsOptions == pc # "start" => ip.options = ip_opts

\* C3 as stated: with every-other, every request is answered; the reply to
\* an odd sequence number is the bare IP header and bare ICMP header alone,
\* whatever the rest of the command line, and the reply to an even sequence
\* number is the reply the same run builds without --special, laid out by
\* the outer ICMP type; the requests carry the sequence numbers 0, 1, 2, ...
\* in order.
C3_EveryOther ==
    args.special = Some("every-other") =>
        /\ pc # "unwind"
        /\ (Built =>
                /\ icmp.seq = n - 1
                /\ (icmp.seq % 2 = 1 =>
                        /\ Len(pkt) = 2
                        /\ pkt[1] = sc_IP
                        /\ pkt[2] = sc_ICMP
                        /\ PayloadOf(pkt) = <<>>)
                /\ (icmp.seq % 2 = 0 =>
                        /\ pkt = ref_pkt
                        /\ pkt[2].type = args.icmp_type
                        /\ (args.icmp_type \in Informational =>
                                NoEmbeddedHeader(pkt))
                        /\ (args.icmp_type \notin Informational =>
                                EmbedsInnerIP(pkt))))

\* Transmissions per iteration: two with --dup, else one.
PerIteration == IF args.dup THEN 2 ELSE 1

\* C4 as stated: every iteration transmits its one built packet once, or
\* twice with --dup (the second frame equal to the first), and only after
\* that iteration's frame was received.
C4_TransmitsEveryIteration ==
    /\ (pc = "loop" => Len(sent) = n * PerIteration)
    /\ (pc \in {"recv", "build", "send"} =>
            Len(sent) = (n - 1) * PerIteration)
    /\ (pc \in {"communicate", "exit", "done"} =>
            Len(sent) = args.count * PerIteration)
    /\ (pc = "dup" => sent[Len(sent)] = raw(pkt))
    /\ (args.dup =>
            \A j \in 1..(Len(sent) \div 2) : sent[2 * j] = sent[2 * j - 1])

\* C5 as stated: the driver waits for ping only after count iterations have
\* transmitted, and exits with ping's exit status.
C5_ExitsWithPingStatus ==
    /\ (pc \in {"communicate", "exit"} =>
            n = args.count /\ Len(sent) = args.count * PerIteration)
    /\ (pc = "done" =>
            /\ n = args.count
            /\ ping.state = "exited"
            /\ status = Some(ping.returncode))

\* The liveness part of C5: the driver eventually ends, ping having sent its
\* count frames and exited.
C5_Terminates == <>(pc = "done")

\* C6 as stated: with wrong, the output payload has the input's length, ends
\* in zero, and differs from the input in exactly the last byte.
C6_ExactlyLastByteDiffers ==
    (Built /\ args.special = Some("wrong")) =>
        LET in == ping.load
            out == PayloadOf(pkt)
        IN  /\ Len(out) = Len(in)
            /\ out[Len(out)] = 0
            /\ \A k \in 1..Len(in) : (out[k] # in[k]) <=> (k = Len(in))

\* C6 as amended: with wrong, for a non-empty input the output payload has
\* the input's length, ends in zero and equals the input in every byte before
\* the last, so it differs from the input in the last byte when that byte is
\* not zero and nowhere when it is; for the empty input the output is the
\* single byte zero.
C6_LastByteZeroed ==
    (Built /\ args.special = Some("wrong")) =>
        LET in == ping.load
            out == PayloadOf(pkt)
        IN  /\ Len(out) = (IF in = <<>> THEN 1 ELSE Len(in))
            /\ out[Len(out)] = 0
            /\ \A k \in 1..(Len(in) - 1) : out[k] = in[k]

\* C6's case: a payload of several non-zero bytes, the last one zeroed.
C6_Witness ==
    /\ Built
    /\ args.special = Some("wrong")
    /\ Len(ping.load) = 3
    /\ ping.load = <<255, 1, 1>>
    /\ PayloadOf(pkt) = <<255, 1, 0>>

\* The maximum signed 64-bit value, big-endian.
Int64Max == <<127, 255, 255, 255, 255, 255, 255, 255>>

\* C7 as stated: with warp, the output payload starts with 0x7f and seven
\* 0xff, continues with the input from offset 8 on, and has the input's
\* length.
C7_SameLength ==
    (Built /\ args.special = Some("warp")) =>
        LET in == ping.load
            out == PayloadOf(pkt)
        IN  /\ SubSeq(out, 1, 8) = Int64Max
            /\ \A k \in 9..Len(in) : out[k] = in[k]
            /\ Len(out) = Len(in)

\* C7 as amended: with warp, the output payload starts with 0x7f and seven
\* 0xff and continues with the input from offset 8 on; it has the input's
\* length when the input has 8 bytes or more, and 8 bytes when the input is
\* shorter.
C7_WarpedTimestamp ==
    (Built /\ args.special = Some("warp")) =>
        LET in == ping.load
            out == PayloadOf(pkt)
        IN  /\ Len(out) >= 8
            /\ SubSeq(out, 1, 8) = Int64Max
            /\ \A k \in 9..Len(in) : out[k] = in[k]
            /\ Len(out) = (IF Len(in) < 8 THEN 8 ELSE Len(in))

\* C7's case: a payload longer than the timestamp, its tail kept.
C7_Witness ==
    /\ Built
    /\ args.special = Some("warp")
    /\ Len(ping.load) = 10
    /\ ping.load[9] = 255
    /\ ping.load[10] = 1
    /\ PayloadOf(pkt) = Int64Max \o <<255, 1>>

\* C8 as stated: whenever --oip_ihl is given (0..15) and the packet embeds
\* the inner IP header, the header length written for the inner header is the
\* override.
C8_OverrideIsDeclared ==
    (Built /\ args.oip_ihl # None /\ EmbedsInnerIP(pkt)) =>
        raw(pkt)[3].ihl = args.oip_ihl

\* The bytes of the router slots of a route option.
Slots(opt) == SubSeq(opt, 4, Len(opt))

\* C9 as stated: RR is 3 + 9 * 4 bytes with its pointer at the first router
\* slot (4); RR-trunc declares a shorter length and still emits nine zero
\* slots.
C9_PointerAtFirstSlot ==
    /\ (pc # "start" /\ args.opts = Some("RR") =>
            Len(ip_opts) = 3 + 9 * 4 /\ ip_opts[3] = 4)
    /\ (pc # "start" /\ args.opts = Some("RR-trunc") =>
            /\ ip_opts[2] < generate_ip_options(Some("RR"))[2]
            /\ Slots(ip_opts) = Repeat(<<0>>, 9 * 4))

\* C9 as amended: RR is 3 + 9 * 4 = 39 bytes with its pointer at 40, just
\* past the ninth router slot (every slot used), not at the first slot;
\* RR-trunc declares a shorter length and still emits nine zero slots.
C9_PointerPastLastSlot ==
    /\ (pc # "start" /\ args.opts = Some("RR") =>
            /\ Len(ip_opts) = 3 + 9 * 4
            /\ ip_opts[2] = Len(ip_opts)
            /\ ip_opts[3] = 3 + 9 * 4 + 1
            /\ Slots(ip_opts) = Flatten(routers))
    /\ (pc # "start" /\ args.opts = Some("RR-trunc") =>
            /\ ip_opts[2] < generate_ip_options(Some("RR"))[2]
            /\ Len(ip_opts) = 3 + 9 * 4
            /\ Slots(ip_opts) = Repeat(<<0>>, 9 * 4))

\* C9's case: the template carries the truncated record-route option.
C9_Witness ==
    /\ pc = "loop"
    /\ args.opts = Some("RR-trunc")
    /\ ip.options = ip_opts
    /\ ip_opts[2] = 7
    /\ Len(ip_opts) = 39

\* C10 as stated: with not-mine and an error-style type, the inner ICMP
\* identifier fits 16 bits, is the request's plus one and differs from the
\* request's, and the outer identifier is the request's.
C10_ForeignIdFits ==
    (Built /\ args.special = Some("not-mine")
           /\ args.icmp_type \notin Informational) =>
        /\ pkt[4].layer = "ICMP"
        /\ pkt[4].id \in 0..65535
        /\ pkt[4].id = ping.id + 1
        /\ pkt[4].id # ping.id
        /\ pkt[2].id = ping.id

====
